---- MODULE Spec2Model ----
(***************************************************************************)
(* Model of the file-ingestion state machine (services/file_processor.py), *)
(* the KnowledgeStore gateway it consults (services/file_manager.py) and   *)
(* the indexing call it issues (services/qa_pipeline.py).                  *)
(*                                                                         *)
(* The ProcessingState dataclass is the record `state`; every method of    *)
(* FileProcessor is an operator from the state before the call to the      *)
(* state after it, and an action of the same name (capitalised) applies it *)
(* to the session.  The live upload set is the variable `uploaded_files`,  *)
(* the list Streamlit's uploader hands to the script, in upload order.     *)
(* The vector store is the set `store` of chunks, each tagged with the     *)
(* filename it came from.                                                  *)
(*                                                                         *)
(* Five specifications share the variables:                                *)
(*   Spec        the methods of FileProcessor called in any order; the     *)
(*               reads of the store that FileProcessor makes answer;       *)
(*   StoreSpec   the methods of FileManager called directly on a store     *)
(*               whose calls may raise or leave the documents in place;    *)
(*   DriverSpec  the script chatbot.py, one step per script run, for every *)
(*               user event and every st.rerun(); questions are asked in   *)
(*               an empty conversation only, the messages of a             *)
(*               conversation having no influence on the processor;        *)
(*   ChatSpec    the same script with nothing uploaded and an empty store: *)
(*               questions, replies that succeed or fail, and clears in    *)
(*               any order;                                                *)
(*   ChunkSpec   the choice of the text splitter for a loaded document.    *)
(***************************************************************************)
EXTENDS Integers, Sequences, FiniteSets, TLC

\* ------------------------------------------------------------------ bounds
MaxFiles == 3        \* how many distinct filenames exist
MaxChunks == 2       \* chunks a file is split into
MaxQuestions == 7    \* questions asked in one conversation
MaxPages == 2        \* pages of a loaded document

FileNames == <<"a.txt", "b.pdf", "c.doc", "d.txt", "e.pdf">>
Files == {FileNames[i] : i \in 1..MaxFiles}
Position(f) == CHOOSE i \in 1..Len(FileNames) : FileNames[i] = f

\* os.path.splitext(name)[1].lower()
splitext ==
    ("a.txt" :> ".txt") @@ ("b.pdf" :> ".pdf") @@ ("c.doc" :> ".doc")
    @@ ("d.txt" :> ".txt") @@ ("e.pdf" :> ".pdf")

None == "<None>"

\* ------------------------------------------------------- ProcessingStatus
IDLE == "idle"
STARTING == "starting"
PROCESSING == "processing"
COMPLETED == "completed"
CANCELLED == "cancelled"
ERROR == "error"
ProcessingStatus == {IDLE, STARTING, PROCESSING, COMPLETED, CANCELLED, ERROR}

\* ------------------------------------------------------------- arithmetic
RECURSIVE GCD(_, _)
GCD(a, b) == IF b = 0 THEN a ELSE GCD(b, a % b)

\* The float n / d, kept exactly as a reduced fraction <<numerator, denominator>>.
Frac(n, d) ==
    LET g == GCD(n, d) IN IF g = 0 THEN <<n, d>> ELSE <<n \div g, d \div g>>

FracEq(p, q) == p[1] * q[2] = q[1] * p[2]

\* --------------------------------------------------------------- messages
\* A formatted message: the template and the parameters substituted in it.
Msg(text, filename, current, total) ==
    [text |-> text, filename |-> filename, current |-> current, total |-> total]

get_status_message(key, filename, current, total) ==
    CASE key = "starting" -> Msg("Starting processing...", None, 0, 0)
      [] key = "processing" -> Msg("Processing {filename}... ({current}/{total})", filename, current, total)
      [] key = "completed" -> Msg("Processing complete", None, 0, 0)
      [] key = "cancelled" -> Msg("Processing cancelled", None, 0, 0)
      [] OTHER -> Msg("Status", None, 0, 0)

\* -------------------------------------------------------- ProcessingState
ProcessingState ==
    [status |-> IDLE,
     current_file_index |-> 0,
     total_files |-> 0,
     current_filename |-> None,
     progress |-> Frac(0, 1),
     message |-> Msg("", None, 0, 0),
     files_to_process |-> <<>>]
\* ------------------------------------------------------------ text splitting
\* A splitter is known by the parameters it was built with.
Splitter(chunk_size, chunk_overlap, separators) ==
    [chunk_size |-> chunk_size, chunk_overlap |-> chunk_overlap,
     separators |-> separators]

\* the separators of get_dynamic_text_splitter and of continuous content
CoarseSeparators == <<"\n\n", "\n", " ", "">>
\* the separators of structured content
FineSeparators == <<"\n\n", "\n", ". ", " ", "">>

\* the module's default splitter
text_splitter == Splitter(1000, 200, CoarseSeparators)

get_dynamic_text_splitter(text_length) ==
    IF text_length <= 5000 THEN Splitter(500, 100, CoarseSeparators)
    ELSE IF text_length <= 20000 THEN Splitter(1000, 200, CoarseSeparators)
    ELSE IF text_length <= 50000 THEN Splitter(1500, 300, CoarseSeparators)
    ELSE Splitter(2000, 400, CoarseSeparators)

\* A page of a loaded document, known by len(page_content) and
\* page_content.count('\n\n').
Page(length, paragraphs) == [length |-> length, paragraphs |-> paragraphs]

\* sum(len(doc.page_content) for doc in docs)
RECURSIVE SumLength(_)
SumLength(pages) ==
    IF pages = <<>> THEN 0 ELSE pages[1].length + SumLength(Tail(pages))

\* sum(doc.page_content.count('\n\n') for doc in docs)
RECURSIVE SumParagraphs(_)
SumParagraphs(pages) ==
    IF pages = <<>> THEN 0 ELSE pages[1].paragraphs + SumParagraphs(Tail(pages))

\* p > q for two floats kept as fractions with positive denominators
FracGreater(p, q) == p[1] * q[2] > q[1] * p[2]

\* the literal 0.01
DensityThreshold == Frac(1, 100)

paragraph_density(pages) ==
    IF SumLength(pages) > 0 THEN Frac(SumParagraphs(pages), SumLength(pages))
    ELSE Frac(0, 1)

analyze_document_content_inclusive(pages) ==
    [total_length |-> SumLength(pages),
     paragraph_density |-> paragraph_density(pages),
     content_type |-> IF ~FracGreater(DensityThreshold, paragraph_density(pages))
                      THEN "structured" ELSE "continuous",
     num_pages |-> Len(pages)]

analyze_document_content(pages) ==
    [total_length |-> SumLength(pages),
     paragraph_density |-> paragraph_density(pages),
     content_type |-> IF FracGreater(paragraph_density(pages), DensityThreshold)
                      THEN "structured" ELSE "continuous",
     num_pages |-> Len(pages)]

\* int(base_chunk_size * 0.9): the product of these sizes with the float 0.9
\* is the float of the exact product, and int() drops its fraction.
ShrunkSize(base_chunk_size) == (base_chunk_size * 9) \div 10

\* The splitter built from the analysis and the base splitter.
adjusted_splitter_scaling_overlap(analysis, base_splitter) ==
    IF analysis.content_type = "structured"
    THEN Splitter(ShrunkSize(base_splitter.chunk_size),
                  ShrunkSize(base_splitter.chunk_overlap), FineSeparators)
    ELSE Splitter(base_splitter.chunk_size, base_splitter.chunk_overlap,
                  CoarseSeparators)

adjusted_splitter(analysis, base_splitter) ==
    IF analysis.content_type = "structured"
    THEN Splitter(ShrunkSize(base_splitter.chunk_size), base_splitter.chunk_overlap,
                  FineSeparators)
    ELSE Splitter(base_splitter.chunk_size, base_splitter.chunk_overlap,
                  CoarseSeparators)

get_optimized_text_splitter(pages) ==
    adjusted_splitter(analyze_document_content(pages),
                      get_dynamic_text_splitter(SumLength(pages)))


VARIABLES
    state,            \* st.session_state["file_processor_state"]
    store,            \* the chunks held by the vector store
    uploaded_files,   \* the live upload set, in upload order
    call,             \* the last operation invoked and what it returned
    ticks,            \* process_next_file calls that found the run active, while it is clean
    clean,            \* the current run was neither cancelled nor had its queue changed
    queue0,           \* files_to_process as the current run's start_processing left it
    attempted,        \* the filenames handed to _process_single_file in the current run
    visited,          \* the filenames a tick of the current run found at the cursor
    processing_started,  \* st.session_state.processing_started
    pending_bot_reply,   \* st.session_state.pending_bot_reply
    rerun,            \* the last script run ended in st.rerun()
    history,          \* st.session_state.history, oldest message first
    asked,            \* questions the chat input took in the current conversation
    query,            \* how the query of the last script run went ("" without one)
    docs,             \* the pages of a loaded document
    splitter          \* the text splitter chosen for docs

vars == <<state, store, uploaded_files, call, ticks, clean, queue0, attempted, visited,
          processing_started, pending_bot_reply, rerun, history, asked,
          query, docs, splitter>>

\* the session state of chatbot.py
session == <<processing_started, pending_bot_reply, rerun, history>>

\* ------------------------------------------------------------ FileManager
ChunksOf(filename) == {[filename |-> filename, id |-> k] : k \in 1..MaxChunks}

\* The try body of file_exists_in_database: vectorstore.get answers.
file_exists_in_database(db, filename) ==
    \E c \in db : c.filename = filename

\* file_exists_in_database with its except branch: when vectorstore.get
\* raises, the error is printed and False is returned.
file_exists_in_database_try(db, filename, get_raises) ==
    IF get_raises THEN FALSE ELSE file_exists_in_database(db, filename)

\* What the store does during one call of the gateway: nothing unusual, or
\* one of its calls misbehaves (the get of the existence check, the get of the
\* ids, the delete, which raises or returns with the documents still there,
\* or the get of the verification).
StoreFaults ==
    {"none", "exists_raises", "ids_raises", "delete_raises", "delete_ignored",
     "verify_raises"}

\* remove_documents_by_filename: (store', return value)
remove_documents_by_filename(db, filename, fault) ==
    IF ~file_exists_in_database_try(db, filename, fault = "exists_raises")
    THEN [db |-> db, ret |-> TRUE]
    ELSE IF fault = "ids_raises"
    THEN [db |-> db, ret |-> FALSE]
    ELSE LET ids_to_remove == {c \in db : c.filename = filename}
         IN  IF ids_to_remove = {}
             THEN [db |-> db, ret |-> TRUE]
             ELSE IF fault = "delete_raises"
             THEN [db |-> db, ret |-> FALSE]
             ELSE LET after == IF fault = "delete_ignored" THEN db
                               ELSE db \ ids_to_remove
                      exists == file_exists_in_database_try(after, filename,
                                                            fault = "verify_raises")
                  IN  [db |-> after, ret |-> ~exists]

\* clear_all_documents: (store', return value); its gets are not wrapped, so
\* a get that raises ends in the except branch.
clear_all_documents(db, fault) ==
    IF fault \in {"exists_raises", "ids_raises"}
    THEN [db |-> db, ret |-> FALSE]
    ELSE IF db # {}
    THEN IF fault = "delete_raises"
         THEN [db |-> db, ret |-> FALSE]
         ELSE LET after == IF fault = "delete_ignored" THEN db ELSE db \ db
              IN  IF fault = "verify_raises"
                  THEN [db |-> after, ret |-> FALSE]
                  ELSE [db |-> after, ret |-> after = {}]
    ELSE [db |-> db, ret |-> TRUE]

\* ---------------------------------------------------------- FileProcessor
\* is_processing that forgets the Starting status
is_processing_only_processing(s) == s.status = PROCESSING

is_processing(s) == s.status \in {STARTING, PROCESSING}

Names(files) == {files[i] : i \in 1..Len(files)}

\* list.index(x): the 0-based position of the first x
IndexOf(seq, x) == (CHOOSE i \in 1..Len(seq) : seq[i] = x /\ \A j \in 1..(i - 1) : seq[j] # x) - 1

Max(a, b) == IF a >= b THEN a ELSE b

\* start_processing that queues every upload, indexed or not
start_processing_unfiltered(s, db, uploaded) ==
    IF is_processing(s)
    THEN [state |-> s, ok |-> FALSE, reason |-> "Processing already in progress"]
    ELSE IF uploaded = <<>>
    THEN [state |-> s, ok |-> FALSE,
          reason |-> "All selected files are already in the database"]
    ELSE [state |-> [s EXCEPT !.status = STARTING,
                              !.current_file_index = 0,
                              !.total_files = Len(uploaded),
                              !.files_to_process = uploaded,
                              !.progress = Frac(0, 1),
                              !.message = get_status_message("starting", None, 0, 0)],
          ok |-> TRUE, reason |-> "Started processing"]

\* start_processing that clears the state when it declines
start_processing_clearing(s, db, uploaded) ==
    IF is_processing(s)
    THEN [state |-> s, ok |-> FALSE, reason |-> "Processing already in progress"]
    ELSE LET new_files == SelectSeq(uploaded, LAMBDA f : ~file_exists_in_database(db, f))
         IN  IF new_files = <<>>
             THEN [state |-> ProcessingState, ok |-> FALSE,
                   reason |-> "All selected files are already in the database"]
             ELSE [state |-> [s EXCEPT !.status = STARTING,
                                       !.current_file_index = 0,
                                       !.total_files = Len(new_files),
                                       !.files_to_process = new_files,
                                       !.progress = Frac(0, 1),
                                       !.message = get_status_message("starting", None, 0, 0)],
                   ok |-> TRUE, reason |-> "Started processing"]

\* start_processing: (state', success flag, reason)
start_processing(s, db, uploaded) ==
    IF is_processing(s)
    THEN [state |-> s, ok |-> FALSE, reason |-> "Processing already in progress"]
    ELSE LET new_files == SelectSeq(uploaded, LAMBDA f : ~file_exists_in_database(db, f))
         IN  IF new_files = <<>>
             THEN [state |-> s, ok |-> FALSE,
                   reason |-> "All selected files are already in the database"]
             ELSE [state |-> [s EXCEPT !.status = STARTING,
                                       !.current_file_index = 0,
                                       !.total_files = Len(new_files),
                                       !.files_to_process = new_files,
                                       !.progress = Frac(0, 1),
                                       !.message = get_status_message("starting", None, 0, 0)],
                   ok |-> TRUE, reason |-> "Started processing"]

\* cancel_processing that also rewinds the cursor
cancel_processing_rewinding(s, reason) ==
    [s EXCEPT !.status = CANCELLED, !.current_file_index = 0,
              !.message = Msg(reason, None, 0, 0)]

cancel_processing(s, reason) ==
    [s EXCEPT !.status = CANCELLED, !.message = Msg(reason, None, 0, 0)]

\* _complete_processing that clears the progress bar
_complete_processing_clearing_progress(s) ==
    [s EXCEPT !.status = COMPLETED,
              !.progress = Frac(0, 1),
              !.message = get_status_message("completed", None, 0, 0)]

_complete_processing(s) ==
    [s EXCEPT !.status = COMPLETED,
              !.progress = Frac(1, 1),
              !.message = get_status_message("completed", None, 0, 0)]

\* reset that keeps the name of the last file
reset_keeping_filename(s) ==
    [s EXCEPT !.status = IDLE,
              !.current_file_index = 0,
              !.total_files = 0,
              !.progress = Frac(0, 1),
              !.message = Msg("", None, 0, 0),
              !.files_to_process = <<>>]

reset(s) ==
    [s EXCEPT !.status = IDLE,
              !.current_file_index = 0,
              !.total_files = 0,
              !.current_filename = None,
              !.progress = Frac(0, 1),
              !.message = Msg("", None, 0, 0),
              !.files_to_process = <<>>]

\* _should_process_file that does not look at the live upload set
_should_process_file_ignoring_uploads(s, db, filename, uploaded) ==
    IF file_exists_in_database(db, filename) THEN FALSE
    ELSE IF filename \notin Names(s.files_to_process) THEN FALSE
    ELSE TRUE

_should_process_file(s, db, filename, uploaded) ==
    IF file_exists_in_database(db, filename) THEN FALSE
    ELSE IF filename \notin Names(uploaded) THEN FALSE
    ELSE IF filename \notin Names(s.files_to_process) THEN FALSE
    ELSE TRUE

_skip_current_file(s, filename) ==
    [s EXCEPT !.current_file_index = @ + 1,
              !.message = Msg("Skipped {filename}", filename, 0, 0)]

\* ------------------------------------------------------------ qa_pipeline
\* What the collaborators do with the one file handed over: the loader and
\* splitter may raise, vectorstore.add_documents may raise.
Outcomes == {"ok", "extract_raises", "store_raises"}

\* def process_uploaded_files(files): one positional parameter
process_uploaded_files_params == 1
\* process_uploaded_files([temp_file_info], cancellation_callback): two arguments
process_uploaded_files_args == 2

\* process_uploaded_files(files) on the store db: (store', return value)
process_uploaded_files(files, db, outcome) ==
    LET loaded == {i \in 1..Len(files) :
                       /\ files[i].ext \in {".pdf", ".txt"}
                       /\ outcome # "extract_raises"}
        documents == UNION {ChunksOf(files[i].name) : i \in loaded}
    IN  IF documents # {}
        THEN IF outcome = "store_raises"
             THEN [db |-> db, ret |-> FALSE]
             ELSE [db |-> db \cup documents, ret |-> TRUE]
        ELSE [db |-> db, ret |-> FALSE]

\* _process_single_file: (store', success)
_process_single_file(s, db, filename, uploaded, outcome) ==
    IF filename \notin Names(uploaded)
    THEN [db |-> db, success |-> FALSE]
    ELSE LET temp_file_info == [name |-> filename, ext |-> splitext[filename]]
         IN  IF process_uploaded_files_args # process_uploaded_files_params
             THEN \* TypeError at the call, caught by `except Exception`
                  [db |-> db, success |-> FALSE]
             ELSE LET r == process_uploaded_files(<<temp_file_info>>, db, outcome)
                  IN  [db |-> r.db, success |-> r.ret]

\* process_next_file that completes the run in the tick that handles the last file
process_next_file_eager(s, db, uploaded, outcome) ==
    IF ~is_processing(s)
    THEN [state |-> s, db |-> db, ret |-> FALSE, attempted |-> None]
    ELSE IF s.current_file_index >= Len(s.files_to_process)
    THEN [state |-> _complete_processing(s), db |-> db, ret |-> FALSE, attempted |-> None]
    ELSE LET filename == s.files_to_process[s.current_file_index + 1]
             last == s.current_file_index + 1 >= Len(s.files_to_process)
             s1 == [s EXCEPT !.status = PROCESSING,
                             !.current_filename = filename,
                             !.progress = Frac(s.current_file_index + 1, s.total_files),
                             !.message = get_status_message("processing", filename,
                                             s.current_file_index + 1, s.total_files)]
             eligible == _should_process_file(s1, db, filename, uploaded)
             r == IF eligible
                  THEN _process_single_file(s1, db, filename, uploaded, outcome)
                  ELSE [db |-> db, success |-> FALSE]
             s2 == IF eligible
                   THEN [s1 EXCEPT !.current_file_index = @ + 1,
                                   !.message = IF r.success
                                       THEN Msg("Processed {filename}", filename, 0, 0)
                                       ELSE Msg("Failed to process {filename}", filename, 0, 0)]
                   ELSE _skip_current_file(s1, filename)
         IN  [state |-> IF last THEN _complete_processing(s2) ELSE s2,
              db |-> r.db, ret |-> ~last,
              attempted |-> IF eligible THEN filename ELSE None]

\* process_next_file that resets the processor when it is called after completion
process_next_file_autoreset(s, db, uploaded, outcome) ==
    IF s.status = COMPLETED
    THEN [state |-> reset(s), db |-> db, ret |-> FALSE, attempted |-> None]
    ELSE IF ~is_processing(s)
    THEN [state |-> s, db |-> db, ret |-> FALSE, attempted |-> None]
    ELSE IF s.current_file_index >= Len(s.files_to_process)
    THEN [state |-> _complete_processing(s), db |-> db, ret |-> FALSE, attempted |-> None]
    ELSE LET filename == s.files_to_process[s.current_file_index + 1]
             s1 == [s EXCEPT !.status = PROCESSING,
                             !.current_filename = filename,
                             !.progress = Frac(s.current_file_index + 1, s.total_files),
                             !.message = get_status_message("processing", filename,
                                             s.current_file_index + 1, s.total_files)]
         IN  IF ~_should_process_file(s1, db, filename, uploaded)
             THEN [state |-> _skip_current_file(s1, filename), db |-> db,
                   ret |-> TRUE, attempted |-> None]
             ELSE LET r == _process_single_file(s1, db, filename, uploaded, outcome)
                  IN  [state |-> [s1 EXCEPT !.current_file_index = @ + 1,
                                            !.message = IF r.success
                                                THEN Msg("Processed {filename}", filename, 0, 0)
                                                ELSE Msg("Failed to process {filename}", filename, 0, 0)],
                       db |-> r.db, ret |-> TRUE, attempted |-> filename]

\* process_next_file that stops the run with status Error when a file fails
process_next_file_halting(s, db, uploaded, outcome) ==
    IF ~is_processing(s)
    THEN [state |-> s, db |-> db, ret |-> FALSE, attempted |-> None]
    ELSE IF s.current_file_index >= Len(s.files_to_process)
    THEN [state |-> _complete_processing(s), db |-> db, ret |-> FALSE, attempted |-> None]
    ELSE LET filename == s.files_to_process[s.current_file_index + 1]
             s1 == [s EXCEPT !.status = PROCESSING,
                             !.current_filename = filename,
                             !.progress = Frac(s.current_file_index + 1, s.total_files),
                             !.message = get_status_message("processing", filename,
                                             s.current_file_index + 1, s.total_files)]
         IN  IF ~_should_process_file(s1, db, filename, uploaded)
             THEN [state |-> _skip_current_file(s1, filename), db |-> db,
                   ret |-> TRUE, attempted |-> None]
             ELSE LET r == _process_single_file(s1, db, filename, uploaded, outcome)
                  IN  IF r.success
                      THEN [state |-> [s1 EXCEPT !.current_file_index = @ + 1,
                                                 !.message = Msg("Processed {filename}",
                                                                 filename, 0, 0)],
                            db |-> r.db, ret |-> TRUE, attempted |-> filename]
                      ELSE [state |-> [s1 EXCEPT !.status = ERROR,
                                                 !.message = Msg("Failed to process {filename}",
                                                                 filename, 0, 0)],
                            db |-> r.db, ret |-> FALSE, attempted |-> filename]

\* process_next_file that, on a skip, passes over the rest of the queue
process_next_file_draining(s, db, uploaded, outcome) ==
    IF ~is_processing(s)
    THEN [state |-> s, db |-> db, ret |-> FALSE, attempted |-> None]
    ELSE IF s.current_file_index >= Len(s.files_to_process)
    THEN [state |-> _complete_processing(s), db |-> db, ret |-> FALSE, attempted |-> None]
    ELSE LET filename == s.files_to_process[s.current_file_index + 1]
             s1 == [s EXCEPT !.status = PROCESSING,
                             !.current_filename = filename,
                             !.progress = Frac(s.current_file_index + 1, s.total_files),
                             !.message = get_status_message("processing", filename,
                                             s.current_file_index + 1, s.total_files)]
         IN  IF ~_should_process_file(s1, db, filename, uploaded)
             THEN [state |-> [_skip_current_file(s1, filename)
                                  EXCEPT !.current_file_index = Len(s.files_to_process)],
                   db |-> db, ret |-> TRUE, attempted |-> None]
             ELSE LET r == _process_single_file(s1, db, filename, uploaded, outcome)
                      s2 == [s1 EXCEPT !.message =
                                 IF r.success THEN Msg("Processed {filename}", filename, 0, 0)
                                 ELSE Msg("Failed to process {filename}", filename, 0, 0)]
                      s3 == [s2 EXCEPT !.current_file_index = @ + 1]
                  IN  [state |-> s3, db |-> r.db, ret |-> TRUE, attempted |-> filename]

\* process_next_file: (state', store', return value, the file handed to
\* _process_single_file or None)
process_next_file(s, db, uploaded, outcome) ==
    IF ~is_processing(s)
    THEN [state |-> s, db |-> db, ret |-> FALSE, attempted |-> None]
    ELSE IF s.current_file_index >= Len(s.files_to_process)
    THEN [state |-> _complete_processing(s), db |-> db, ret |-> FALSE, attempted |-> None]
    ELSE LET filename == s.files_to_process[s.current_file_index + 1]
             progress == Frac(s.current_file_index + 1, s.total_files)
             s1 == [s EXCEPT !.status = PROCESSING,
                             !.current_filename = filename,
                             !.progress = progress,
                             !.message = get_status_message("processing", filename,
                                             s.current_file_index + 1, s.total_files)]
         IN  IF ~_should_process_file(s1, db, filename, uploaded)
             THEN [state |-> _skip_current_file(s1, filename), db |-> db,
                   ret |-> TRUE, attempted |-> None]
             ELSE LET r == _process_single_file(s1, db, filename, uploaded, outcome)
                      s2 == [s1 EXCEPT !.message =
                                 IF r.success THEN Msg("Processed {filename}", filename, 0, 0)
                                 ELSE Msg("Failed to process {filename}", filename, 0, 0)]
                      s3 == [s2 EXCEPT !.current_file_index = @ + 1]
                  IN  [state |-> s3, db |-> r.db, ret |-> TRUE, attempted |-> filename]

\* adjust_index that leaves the cursor alone when the current file was removed
adjust_index_unclamped(s, old_current_filename, new_files_to_process) ==
    IF old_current_filename # None /\ old_current_filename \in Names(new_files_to_process)
    THEN IndexOf(new_files_to_process, old_current_filename)
    ELSE s.current_file_index

\* The cursor after the queue shrank to new_files_to_process.
adjust_index(s, old_current_filename, new_files_to_process) ==
    IF old_current_filename # None /\ old_current_filename \in Names(new_files_to_process)
    THEN IndexOf(new_files_to_process, old_current_filename)
    ELSE IF s.current_file_index >= Len(new_files_to_process)
         THEN Max(0, Len(new_files_to_process) - 1)
         ELSE s.current_file_index

\* update_files_list that relocates the cursor whether or not a file was removed
update_files_list_always_relocating(s, uploaded) ==
    IF ~is_processing(s)
    THEN [state |-> s, removed |-> FALSE]
    ELSE LET new_files_to_process ==
                 SelectSeq(s.files_to_process, LAMBDA f : f \in Names(uploaded))
             removed == new_files_to_process # s.files_to_process
         IN  IF new_files_to_process = <<>>
             THEN [state |-> cancel_processing(s, "Processing cancelled - all files removed"),
                   removed |-> TRUE]
             ELSE LET s1 == [s EXCEPT !.files_to_process = new_files_to_process,
                                      !.total_files = Len(new_files_to_process)]
                  IN  [state |-> [s1 EXCEPT !.current_file_index =
                                      adjust_index(s1, s.current_filename, new_files_to_process)],
                       removed |-> removed]

\* update_files_list that empties the queue instead of cancelling the run
update_files_list_without_cancel(s, uploaded) ==
    IF ~is_processing(s)
    THEN [state |-> s, removed |-> FALSE]
    ELSE LET new_files_to_process ==
                 SelectSeq(s.files_to_process, LAMBDA f : f \in Names(uploaded))
         IN  IF new_files_to_process = s.files_to_process
             THEN [state |-> s, removed |-> FALSE]
             ELSE LET s1 == [s EXCEPT !.files_to_process = new_files_to_process,
                                      !.total_files = Len(new_files_to_process)]
                  IN  [state |-> [s1 EXCEPT !.current_file_index =
                                      adjust_index(s1, s.current_filename, new_files_to_process)],
                       removed |-> TRUE]

\* update_files_list: (state', whether files were found removed)
update_files_list(s, uploaded) ==
    IF ~is_processing(s)
    THEN [state |-> s, removed |-> FALSE]
    ELSE LET current_uploaded_names == Names(uploaded)
             removed_files == SelectSeq(s.files_to_process,
                                        LAMBDA f : f \notin current_uploaded_names)
         IN  IF removed_files # <<>>
             THEN LET new_files_to_process ==
                          SelectSeq(s.files_to_process, LAMBDA f : f \in current_uploaded_names)
                  IN  IF new_files_to_process = <<>>
                      THEN [state |-> cancel_processing(s, "Processing cancelled - all files removed"),
                            removed |-> TRUE]
                      ELSE LET old_current_filename == s.current_filename
                               s1 == [s EXCEPT !.files_to_process = new_files_to_process,
                                               !.total_files = Len(new_files_to_process)]
                           IN  [state |-> [s1 EXCEPT !.current_file_index =
                                               adjust_index(s1, old_current_filename,
                                                            new_files_to_process)],
                                removed |-> TRUE]
             ELSE [state |-> s, removed |-> FALSE]

\* ---------------------------------------------------------------- session
\* The record of a call: the operation, its return value (a returned message
\* counts as TRUE, None as FALSE), the reason string where one is returned,
\* the file handed to _process_single_file, what the collaborators did, and
\* the status the operation found.
Call(op, ret, reason, file, outcome, found) ==
    [op |-> op, ret |-> ret, reason |-> reason, file |-> file, outcome |-> outcome,
     found |-> found]

Init ==
    /\ state = ProcessingState
    /\ store \in {UNION {ChunksOf(f) : f \in S} : S \in SUBSET Files}
    /\ uploaded_files = <<>>
    /\ call = Call("init", FALSE, "", None, "", IDLE)
    /\ ticks = 0
    /\ clean = TRUE
    /\ queue0 = <<>>
    /\ attempted = {}
    /\ visited = {}
    /\ processing_started = FALSE
    /\ pending_bot_reply = FALSE
    /\ rerun = FALSE
    /\ history = <<>>
    /\ asked = 0
    /\ query = ""
    /\ docs = <<>>
    /\ splitter = text_splitter

\* The user adds a file to the uploader.  During a run the live upload set
\* only shrinks, so files are added between runs.  The code compares
\* filenames for equality only, so one upload order stands for all of them:
\* files are uploaded in the order of FileNames.
AddUpload ==
    \E f \in Files \ Names(uploaded_files) :
        /\ ~is_processing(state)
        /\ \A g \in Names(uploaded_files) : Position(g) < Position(f)
        /\ uploaded_files' = Append(uploaded_files, f)
        /\ call' = Call("add_upload", TRUE, "", None, "", state.status)
        /\ UNCHANGED <<state, store, ticks, clean, queue0, attempted>>
        /\ UNCHANGED <<session, asked, query, docs, splitter, visited>>

\* The user removes a file from the uploader.
RemoveUpload ==
    \E f \in Names(uploaded_files) :
        /\ uploaded_files' = SelectSeq(uploaded_files, LAMBDA g : g # f)
        /\ call' = Call("remove_upload", TRUE, "", None, "", state.status)
        /\ UNCHANGED <<state, store, ticks, clean, queue0, attempted>>
        /\ UNCHANGED <<session, asked, query, docs, splitter, visited>>

StartProcessing ==
    LET r == start_processing(state, store, uploaded_files)
    IN  /\ state' = r.state
        /\ call' = Call("start_processing", r.ok, r.reason, None, "", state.status)
        /\ IF r.ok
           THEN /\ ticks' = 0
                /\ clean' = TRUE
                /\ queue0' = r.state.files_to_process
                /\ attempted' = {}
                /\ visited' = {}
           ELSE UNCHANGED <<ticks, clean, queue0, attempted, visited>>
        /\ UNCHANGED <<store, uploaded_files>>
        /\ UNCHANGED <<session, asked, query, docs, splitter>>

ProcessNextFile ==
    \E outcome \in Outcomes :
        LET r == process_next_file(state, store, uploaded_files, outcome)
        IN  /\ state' = r.state
            /\ store' = r.db
            /\ ticks' = IF is_processing(state) /\ clean THEN ticks + 1 ELSE ticks
            /\ attempted' = IF r.attempted # None
                            THEN attempted \cup {r.attempted}
                            ELSE attempted
            /\ call' = Call("process_next_file", r.ret, "", r.attempted,
                            IF r.attempted # None THEN outcome ELSE "", state.status)
            /\ visited' = IF r.ret
                          THEN visited \cup {r.state.current_filename}
                          ELSE visited
            /\ UNCHANGED <<uploaded_files, clean, queue0>>
            /\ UNCHANGED <<session, asked, query, docs, splitter>>

UpdateFilesList ==
    LET r == update_files_list(state, uploaded_files)
    IN  /\ state' = r.state
        /\ clean' = (clean /\ ~r.removed)
        /\ call' = Call("update_files_list", r.removed, "", None, "", state.status)
        /\ UNCHANGED <<store, uploaded_files, ticks, queue0, attempted>>
        /\ UNCHANGED <<session, asked, query, docs, splitter, visited>>

CancelProcessing ==
    /\ state' = cancel_processing(state, "Processing cancelled")
    /\ call' = Call("cancel_processing", TRUE, "Processing cancelled", None, "", state.status)
    /\ ticks' = 0
    /\ clean' = FALSE
    /\ queue0' = <<>>
    /\ attempted' = {}
    /\ UNCHANGED <<store, uploaded_files>>
    /\ UNCHANGED <<session, asked, query, docs, splitter, visited>>

Reset ==
    /\ state' = reset(state)
    /\ call' = Call("reset", TRUE, "", None, "", state.status)
    /\ ticks' = 0
    /\ clean' = TRUE
    /\ queue0' = <<>>
    /\ attempted' = {}
    /\ UNCHANGED <<store, uploaded_files>>
    /\ UNCHANGED <<session, asked, query, docs, splitter, visited>>

Next ==
    \/ AddUpload
    \/ RemoveUpload
    \/ StartProcessing
    \/ ProcessNextFile
    \/ UpdateFilesList
    \/ CancelProcessing
    \/ Reset

Spec == Init /\ [][Next]_vars

\* The processing loop of the script as the processor sees it: while a run is
\* active every script run calls update_files_list and then
\* process_next_file, and ends in st.rerun(), so ticks keep coming; the user
\* adds files between runs and removes them at any time; nothing cancels or
\* resets the processor from outside.
RunNext ==
    \/ AddUpload
    \/ RemoveUpload
    \/ StartProcessing
    \/ UpdateFilesList
    \/ ProcessNextFile

RunSpec == Init /\ [][RunNext]_vars /\ WF_vars(ProcessNextFile)

\* ------------------------------------------------------ the store gateway
\* file_manager called directly, on every store content and with every
\* behaviour of the store.
RemoveDocumentsByFilename ==
    \E f \in Files, fault \in StoreFaults :
        LET r == remove_documents_by_filename(store, f, fault)
        IN  /\ store' = r.db
            /\ call' = Call("remove_documents_by_filename", r.ret, "", f, fault,
                            state.status)
            /\ UNCHANGED <<state, uploaded_files, ticks, clean, queue0, attempted>>
            /\ UNCHANGED <<session, asked, query, docs, splitter, visited>>

ClearAllDocuments ==
    \E fault \in StoreFaults :
        LET r == clear_all_documents(store, fault)
        IN  /\ store' = r.db
            /\ call' = Call("clear_all_documents", r.ret, "", None, fault, state.status)
            /\ UNCHANGED <<state, uploaded_files, ticks, clean, queue0, attempted>>
            /\ UNCHANGED <<session, asked, query, docs, splitter, visited>>

StoreNext ==
    \/ RemoveDocumentsByFilename
    \/ ClearAllDocuments

StoreSpec == Init /\ [][StoreNext]_vars

\* ------------------------------------------------- ConversationManager
\* ConversationConfig: the global conversation_manager is built with the
\* default configuration.
max_history_length == 10

Message(role, content) == [role |-> role, content |-> content]

should_truncate_history(h) == Len(h) > max_history_length

\* history[-max_history_length:]
truncate_history(h) ==
    IF Len(h) <= max_history_length
    THEN h
    ELSE SubSeq(h, Len(h) - max_history_length + 1, Len(h))

\* ------------------------------------------------- query_knowledgebase
\* The ways a query can go: the retriever or the prompt formatting raises,
\* llm.invoke raises, or the model answers.
QueryFailures == {"none", "retriever_raises", "llm_raises"}

\* The text the model answers a question with.
Answer(question) == "answer to " \o question

LLMApology == "I apologize, but I encountered an error processing your question."
QueryApology == "Sorry, I encountered an error processing your question."

\* What a call leaves when an exception propagates out of it.
Raised == "<raised>"

\* _call_llm: a raising llm.invoke is caught and answered with an apology.
_call_llm(question, failure) ==
    IF failure = "llm_raises" THEN LLMApology ELSE Answer(question)

query_knowledgebase_propagating(question, chat_history, failure) ==
    IF failure = "none" THEN Answer(question) ELSE Raised

\* chain_func runs _get_inputs, then _call_llm; whatever _get_inputs raises is
\* caught by query_knowledgebase itself.
query_knowledgebase(question, chat_history, failure) ==
    IF failure = "retriever_raises" THEN QueryApology ELSE _call_llm(question, failure)

\* ------------------------------------------------------------- chatbot.py
\* One run of the script is one step: Streamlit runs it from the top for every
\* user event and after every st.rerun().  Each part below yields the values
\* the run leaves and whether it ended the run with st.rerun().

\* "Handle file uploads" after start_processing returned r: both branches
\* end in st.rerun(), and a declined start empties the uploader
\* (file_uploader_key += 1).
sidebar_started(r, db, uploaded, started) ==
    [state |-> r.state, db |-> db,
     uploaded |-> IF r.ok THEN uploaded ELSE <<>>,
     started |-> IF r.ok THEN TRUE ELSE started,
     rerun |-> TRUE]

\* "Continue processing if in progress" after process_next_file returned t.
sidebar_ticked(t, uploaded, started) ==
    IF ~t.ret /\ t.state.status = COMPLETED
    THEN [state |-> reset(t.state), db |-> t.db, uploaded |-> <<>>,
          started |-> FALSE, rerun |-> TRUE]
    ELSE [state |-> t.state, db |-> t.db, uploaded |-> uploaded,
          started |-> started, rerun |-> TRUE]

\* "Handle file uploads" with files in the uploader, after update_files_list
\* left the processor state u.
sidebar_files(u, db, uploaded, started, pending, outcome) ==
    IF ~is_processing(u) /\ ~pending /\ u.status = IDLE /\ ~started
    THEN sidebar_started(start_processing(u, db, uploaded), db, uploaded, started)
    ELSE IF is_processing(u)
    THEN sidebar_ticked(process_next_file(u, db, uploaded, outcome), uploaded, started)
    ELSE [state |-> u, db |-> db, uploaded |-> uploaded,
          started |-> started, rerun |-> FALSE]

\* "Handle file uploads": (processor state', store', uploader content,
\* processing_started', st.rerun() called)
sidebar_upload(s, db, uploaded, started, pending, outcome) ==
    IF uploaded # <<>>
    THEN sidebar_files(update_files_list(s, uploaded).state, db, uploaded,
                       started, pending, outcome)
    ELSE [state |-> IF is_processing(s) /\ started
                    THEN reset(cancel_processing(s, "Processing cancelled - no files selected"))
                    ELSE s,
          db |-> db, uploaded |-> <<>>, started |-> FALSE, rerun |-> FALSE]

\* The store may also fail the existence check a button makes itself.
UIFaults == StoreFaults \cup {"check_raises"}

\* What a button does with the processor before it touches the store:
\* (processor state', the cancel reason if it cancelled)
stop_processing(s, reason) ==
    IF is_processing(s)
    THEN [state |-> reset(cancel_processing(s, reason)), reason |-> reason]
    ELSE [state |-> s, reason |-> ""]

\* A button after its destructive call op returned r, the processor being in
\* p.state at the call: (processor state', store', uploader content,
\* st.rerun() called, the destructive call issued, the status of the processor
\* at that call, its return value, the cancel reason if any).  A successful
\* call empties the uploader and reruns.
button_done(p, r, uploaded, op) ==
    [state |-> p.state, db |-> r.db,
     uploaded |-> IF r.ret THEN <<>> ELSE uploaded, rerun |-> r.ret,
     issued |-> op, found |-> p.state.status, ret |-> r.ret, reason |-> p.reason]

\* A run that issues no destructive call.
button_none(s, db, uploaded, reason) ==
    [state |-> s, db |-> db, uploaded |-> uploaded, rerun |-> FALSE,
     issued |-> "", found |-> s.status, ret |-> FALSE, reason |-> reason]

\* The remove button of a file.
remove_file_button(p, db, uploaded, filename, fault) ==
    IF ~file_exists_in_database_try(db, filename, fault = "check_raises")
    THEN button_none(p.state, db, uploaded, p.reason)
    ELSE button_done(p, remove_documents_by_filename(db, filename, fault), uploaded,
                     "remove_documents_by_filename")

\* The "Clear All Documents" button.
clear_all_button(p, db, uploaded, fault) ==
    button_done(p, clear_all_documents(db, fault), uploaded, "clear_all_documents")

\* The chat input with a non-blank question: the history is cut if it is too
\* long, then the question is appended.
chat_submitted_truncating_after(h, question) ==
    [history |-> truncate_history(Append(h, Message("user", question))),
     pending |-> TRUE, rerun |-> TRUE, queried |-> FALSE]

chat_submitted(h, question) ==
    [history |-> Append(IF should_truncate_history(h) THEN truncate_history(h) ELSE h,
                        Message("user", question)),
     pending |-> TRUE, rerun |-> TRUE, queried |-> FALSE]

\* The pending reply: the answer to the last message is appended.  An
\* exception out of the query would end the run where it is.
chat_replied(h, answer) ==
    IF answer = Raised
    THEN [history |-> h, pending |-> TRUE, rerun |-> FALSE, queried |-> TRUE]
    ELSE [history |-> Append(h, Message("assistant", answer)),
          pending |-> FALSE, rerun |-> TRUE, queried |-> TRUE]

\* The chat input and the pending reply at the end of the script:
\* (history', pending_bot_reply', st.rerun() called).  history[-1] of an empty
\* history raises.
chat_section(h, pending, event, question, failure) ==
    IF event = "chat_input"
    THEN chat_submitted(h, question)
    ELSE IF pending /\ h # <<>>
    THEN chat_replied(h, query_knowledgebase(h[Len(h)].content,
                                             SubSeq(h, 1, Len(h) - 1), failure))
    ELSE [history |-> h, pending |-> pending, rerun |-> FALSE, queried |-> FALSE]

\* The database management part, reached with the values a of the upload part.
database_management(a, event, filename, fault) ==
    IF event = "remove_file" /\ a.db # {}
    THEN remove_file_button(
             stop_processing(a.state, "Processing cancelled - removing file"),
             a.db, a.uploaded, filename, fault)
    ELSE IF event = "clear_all" /\ a.db # {}
    THEN clear_all_button(
             stop_processing(a.state, "Processing cancelled - clearing database"),
             a.db, a.uploaded, fault)
    ELSE button_none(a.state, a.db, a.uploaded, "")

\* The end of a run whose buttons left b and whose chat part would leave c.
script_end(a, b, c, h, pending) ==
    [state |-> b.state, db |-> b.db, uploaded |-> b.uploaded, started |-> a.started,
     history |-> IF b.rerun THEN h ELSE c.history,
     queried |-> ~b.rerun /\ c.queried,
     pending |-> IF b.rerun THEN pending ELSE c.pending,
     rerun |-> b.rerun \/ c.rerun,
     issued |-> b.issued, found |-> b.found, ret |-> b.ret, reason |-> b.reason]

\* the script whose Clear Conversation button empties the history and leaves
\* pending_bot_reply as it is
script_rest_clear_keeping_pending(a, h, pending, event, filename, fault, question, failure) ==
    IF a.rerun \/ event = "clear_conversation"
    THEN [state |-> a.state, db |-> a.db, uploaded |-> a.uploaded,
          started |-> a.started,
          history |-> IF a.rerun THEN h ELSE <<>>,
          queried |-> FALSE,
          pending |-> pending,
          rerun |-> TRUE,
          issued |-> "", found |-> a.state.status, ret |-> FALSE, reason |-> ""]
    ELSE script_end(a, database_management(a, event, filename, fault),
                    chat_section(h, pending, event, question, failure), h, pending)

\* The script below the upload part, which left a.
script_rest(a, h, pending, event, filename, fault, question, failure) ==
    IF a.rerun \/ event = "clear_conversation"
    THEN [state |-> a.state, db |-> a.db, uploaded |-> a.uploaded,
          started |-> a.started,
          history |-> IF a.rerun THEN h ELSE <<>>,
          queried |-> FALSE,
          pending |-> IF a.rerun THEN pending ELSE FALSE,
          rerun |-> TRUE,
          issued |-> "", found |-> a.state.status, ret |-> FALSE, reason |-> ""]
    ELSE script_end(a, database_management(a, event, filename, fault),
                    chat_section(h, pending, event, question, failure), h, pending)

\* The script from top to bottom for one event; a part that calls st.rerun()
\* ends the run.
script(s, db, uploaded, started, h, pending, event, filename, outcome, fault, question, failure) ==
    script_rest(sidebar_upload(s, db, uploaded, started, pending, outcome),
                h, pending, event, filename, fault, question, failure)

\* The run leaves r.
ScriptDone(r, event, filename, failure) ==
    /\ state' = r.state
    /\ store' = r.db
    /\ uploaded_files' = r.uploaded
    /\ processing_started' = r.started
    /\ history' = r.history
    /\ pending_bot_reply' = r.pending
    /\ rerun' = r.rerun
    /\ asked' = IF r.history = <<>> THEN 0
                ELSE IF event = "chat_input" /\ r.history # history THEN asked + 1
                ELSE asked
    /\ query' = IF r.queried THEN failure ELSE ""
    /\ call' = Call(event, r.ret, r.reason,
                    IF r.issued = "remove_documents_by_filename" THEN filename ELSE None,
                    r.issued, r.found)
    /\ UNCHANGED <<ticks, clean, queue0, attempted, visited, docs, splitter>>

\* A run of the script for the event, with uploaded in the uploader and the
\* store behaving in one of the ways of faults.
ScriptRun(event, uploaded, filename, faults) ==
    \E outcome \in IF is_processing(state) THEN Outcomes ELSE {"ok"},
       fault \in faults,
       failure \in IF pending_bot_reply THEN QueryFailures ELSE {"none"} :
        ScriptDone(script(state, store, uploaded, processing_started, history,
                          pending_bot_reply, event, filename, outcome, fault,
                          ToString(asked + 1), failure),
                   event, filename, failure)

\* The user adds a file to the uploader (between runs, in the order of
\* FileNames, as in AddUpload).
UploadAdded ==
    \E f \in Files \ Names(uploaded_files) :
        /\ ~is_processing(state)
        /\ \A g \in Names(uploaded_files) : Position(g) < Position(f)
        /\ ScriptRun("upload_added", Append(uploaded_files, f), None, {"none"})

\* The user removes a file from the uploader.
UploadRemoved ==
    \E f \in Names(uploaded_files) :
        ScriptRun("upload_removed", SelectSeq(uploaded_files, LAMBDA g : g # f), None,
                  {"none"})

\* The run that st.rerun() asked for.
Rerun ==
    /\ rerun
    /\ ScriptRun("rerun", uploaded_files, None, {"none"})

\* The user clicks the remove button of a file the statistics list.
RemoveFileClicked ==
    \E f \in Files :
        /\ file_exists_in_database(store, f)
        /\ ScriptRun("remove_file", uploaded_files, f, UIFaults)

ClearAllClicked ==
    /\ store # {}
    /\ ScriptRun("clear_all", uploaded_files, None, UIFaults)

ClearConversationClicked ==
    ScriptRun("clear_conversation", uploaded_files, None, {"none"})

\* The user submits a question; the text of the n-th question of a
\* conversation is n.
ChatSubmitted ==
    /\ asked < MaxQuestions
    /\ ScriptRun("chat_input", uploaded_files, None, {"none"})

\* The first question of a conversation, asked while files are uploaded and
\* processed.
ChatSubmittedFirst ==
    /\ history = <<>>
    /\ ScriptRun("chat_input", uploaded_files, None, {"none"})

DriverNext ==
    \/ UploadAdded
    \/ UploadRemoved
    \/ Rerun
    \/ RemoveFileClicked
    \/ ClearAllClicked
    \/ ClearConversationClicked
    \/ ChatSubmittedFirst

DriverSpec == Init /\ [][DriverNext]_vars

\* The driver with its scheduling: a run that ended in st.rerun() is followed
\* by the run it asked for; the user acts or not.
DriverFairSpec ==
    /\ Init
    /\ [][DriverNext]_vars
    /\ WF_vars(Rerun)

\* The conversation alone: nothing is uploaded and the store is empty, so
\* every run of the script reaches the chat part.
ChatInit == Init /\ store = {}

ChatNext ==
    \/ ChatSubmitted
    \/ Rerun
    \/ ClearConversationClicked

ChatSpec == ChatInit /\ [][ChatNext]_vars

\* ------------------------------------------------ choosing a text splitter
\* The documents the splitter is chosen for: pages whose lengths and
\* paragraph counts lie on both sides of every threshold of the code.
PageLengths == {0, 3000, 5000, 5001, 20000, 20001, 50000, 50001, 60000}
ParagraphCounts == {0, 30, 31, 200, 201, 500, 600, 601}

\* non-overlapping occurrences of '\n\n' take two characters each
Pages ==
    {Page(l, p) : l \in {0}, p \in {0}} \cup
    {Page(l, p) : l \in PageLengths \ {0}, p \in ParagraphCounts}

Documents == UNION {[1..n -> Pages] : n \in 0..MaxPages}

ChunkInit ==
    /\ state = ProcessingState
    /\ store = {}
    /\ uploaded_files = <<>>
    /\ call = Call("init", FALSE, "", None, "", IDLE)
    /\ ticks = 0
    /\ clean = TRUE
    /\ queue0 = <<>>
    /\ attempted = {}
    /\ visited = {}
    /\ processing_started = FALSE
    /\ pending_bot_reply = FALSE
    /\ rerun = FALSE
    /\ history = <<>>
    /\ asked = 0
    /\ query = ""
    /\ docs \in Documents
    /\ splitter = text_splitter

\* optimized_splitter, chunk_size = get_optimized_text_splitter(docs)
GetOptimizedTextSplitter ==
    /\ splitter' = get_optimized_text_splitter(docs)
    /\ call' = Call("get_optimized_text_splitter", TRUE, "", None, "", state.status)
    /\ UNCHANGED <<state, store, uploaded_files, ticks, clean, queue0, attempted,
                   session, asked, query, docs, visited>>

ChunkNext == GetOptimizedTextSplitter

ChunkSpec == ChunkInit /\ [][ChunkNext]_vars

\* ----------------------------------------------------------------- claims
Active == state.status \in {STARTING, PROCESSING}

\* C1 (as stated): a run that is neither cancelled nor has its queue changed
\* reaches Completed after exactly total_files ticks.
C1_TicksEqualTotalFiles ==
    (state.status = COMPLETED /\ clean) => ticks = state.total_files

\* C1 (amended): a run that is neither cancelled nor has its queue changed
\* reaches Completed after exactly total_files + 1 ticks: one tick per queued
\* file, and one more whose entry check finds the cursor at the end of the queue.
C1_TicksEqualTotalFilesPlusOne ==
    (state.status = COMPLETED /\ clean) => ticks = state.total_files + 1

C1_Witness ==
    /\ state.status = COMPLETED
    /\ clean
    /\ state.total_files >= 2
    /\ call.op = "process_next_file"

\* C2: within one run no filename is handed to extraction/indexing twice: a
\* tick never attempts a file that an earlier tick of the run attempted.
C2_NoRetryWithinRun ==
    [][(call'.op = "process_next_file" /\ call'.file # None)
          => call'.file \notin attempted]_vars

\* C3 (as stated): while status is Processing, neither process_next_file nor
\* update_files_list decreases current_file_index.
C3_CursorNeverDecreases ==
    [][(/\ state.status = PROCESSING
        /\ state'.status = PROCESSING
        /\ call'.op \in {"process_next_file", "update_files_list"})
          => state'.current_file_index >= state.current_file_index]_vars

\* C3 (amended): while status is Processing, process_next_file never
\* decreases current_file_index, and update_files_list leaves it unchanged
\* unless it finds a queued file removed from the live set; then it may move
\* the cursor back, but never below 0.
C3_CursorDecreasesOnlyOnRemoval ==
    [][(state.status = PROCESSING /\ state'.status = PROCESSING) =>
          /\ call'.op = "process_next_file"
                => state'.current_file_index >= state.current_file_index
          /\ (call'.op = "update_files_list" /\ ~call'.ret)
                => state'.current_file_index = state.current_file_index
          /\ call'.op = "update_files_list" => state'.current_file_index >= 0]_vars

C3_Witness ==
    /\ state.status = PROCESSING
    /\ call.op = "update_files_list"
    /\ call.ret
    /\ ticks >= 1
    /\ state.current_file_index = 0

\* C4: whenever status is Processing, 0 <= current_file_index <= total_files
\* and total_files = len(files_to_process).
C4_CursorWithinQueue ==
    state.status = PROCESSING =>
        /\ 0 <= state.current_file_index
        /\ state.current_file_index <= state.total_files
        /\ state.total_files = Len(state.files_to_process)

C4_Witness ==
    /\ state.status = PROCESSING
    /\ call.op = "update_files_list"
    /\ call.ret
    /\ state.total_files < Len(queue0)

\* C5: queue [a.txt, b.pdf], a.txt handled by tick 1, then b.pdf removed from
\* the live upload set: after update_files_list the queue is [a.txt] with
\* total_files 1 and the cursor within bounds, and the next tick completes
\* the run without attempting a file.
C5_NextTickCompletes ==
    [][(/\ queue0 = <<"a.txt", "b.pdf">>
        /\ ticks = 1
        /\ Active
        /\ call.op = "update_files_list"
        /\ call.ret
        /\ uploaded_files = <<"a.txt">>
        /\ call'.op = "process_next_file")
          => /\ state.total_files = 1
             /\ state.files_to_process = <<"a.txt">>
             /\ state.current_file_index \in 0..1
             /\ state'.status = COMPLETED
             /\ call'.file = None]_vars

Eligible(f) ==
    /\ ~file_exists_in_database(store, f)
    /\ f \in Names(uploaded_files)
    /\ splitext[f] \in {".pdf", ".txt"}

\* C6: a tick that reaches an eligible file (not indexed, in the live upload
\* set, supported extension) while neither extraction nor insertion fails
\* leaves the file indexed and records the tick as a success.
C6_EligibleFileIsIndexed ==
    [][(/\ call'.op = "process_next_file"
        /\ Active
        /\ state.current_file_index < Len(state.files_to_process)
        /\ Eligible(state.files_to_process[state.current_file_index + 1])
        /\ call'.outcome = "ok")
          => LET f == state.files_to_process[state.current_file_index + 1]
             IN  /\ file_exists_in_database(store', f)
                 /\ state'.message = Msg("Processed {filename}", f, 0, 0)]_vars

\* The uploads not yet indexed.
NotIndexed == {f \in Names(uploaded_files) : \A c \in store : c.filename # f}

\* q lists exactly the files of S, each once, in the order of the upload list.
InUploadOrder(q, S) ==
    /\ Names(q) = S
    /\ Len(q) = Cardinality(S)
    /\ \A i, j \in 1..Len(q) :
          i < j => \E m, n \in 1..Len(uploaded_files) :
                      m < n /\ uploaded_files[m] = q[i] /\ uploaded_files[n] = q[j]

C8_DeclinedStartChangesNothing ==
    [][(call'.op = "start_processing" /\ ~call'.ret /\ ~Active) =>
          /\ state' = state
          /\ store' = store
          /\ call'.reason # ""]_vars

C8_Witness ==
    /\ call.op = "start_processing"
    /\ ~call.ret
    /\ call.reason = "All selected files are already in the database"
    /\ state.status = COMPLETED
    /\ uploaded_files # <<>>

\* C9: start_processing while status is Starting or Processing is refused
\* and leaves queue, cursor, total_files, progress and status unchanged.
C9_StartRefusedWhileActive ==
    [][(call'.op = "start_processing" /\ Active) =>
          /\ ~call'.ret
          /\ state'.files_to_process = state.files_to_process
          /\ state'.current_file_index = state.current_file_index
          /\ state'.total_files = state.total_files
          /\ state'.progress = state.progress
          /\ state'.status = state.status
          /\ queue0' = queue0]_vars

C9_Witness ==
    /\ call.op = "start_processing"
    /\ ~call.ret
    /\ call.reason = "Processing already in progress"
    /\ state.status = STARTING
    /\ NotIndexed # {}

\* C10: cancel_processing sets status Cancelled and leaves the cursor where
\* it was; while Cancelled, process_next_file and update_files_list neither
\* move the cursor nor hand a file to indexing nor change the status.
C10_CancelFreezesCursor ==
    [][/\ call'.op = "cancel_processing"
            => /\ state'.status = CANCELLED
               /\ state'.current_file_index = state.current_file_index
       /\ (/\ state.status = CANCELLED
           /\ call'.op \in {"process_next_file", "update_files_list"})
            => /\ state'.current_file_index = state.current_file_index
               /\ state'.status = CANCELLED
               /\ call'.file = None
               /\ store' = store]_vars

C10_Witness ==
    /\ state.status = CANCELLED
    /\ call.op = "process_next_file"
    /\ state.current_file_index >= 1
    /\ state.current_file_index < state.total_files
    /\ state.files_to_process[state.current_file_index + 1] \in Names(uploaded_files)

\* ---------------------------------------------------------------------------
\* C11: process_next_file called when the status is Completed is a no-op: it
\* returns False and changes no field of the ProcessingState (the cursor in
\* particular) nor the store, however often it is repeated (the step is taken
\* from every Completed state, also from one a previous such call left).
C11_TickAfterCompletedIsNoOp ==
    [][(call'.op = "process_next_file" /\ state.status = COMPLETED)
           => /\ ~call'.ret
              /\ call'.file = None
              /\ state' = state
              /\ store' = store]_vars

\* A Completed run on which process_next_file was called again: the call found
\* the status Completed, and the cursor still sits at the end of the queue.
C11_Witness ==
    /\ call.op = "process_next_file"
    /\ call.found = COMPLETED
    /\ state.status = COMPLETED
    /\ state.current_file_index = state.total_files
    /\ state.total_files >= 2

\* ---------------------------------------------------------------------------
\* C12: update_files_list called during an active run with a live upload set
\* that contains none of the queued filenames sets the status to Cancelled;
\* called with a live upload set that still contains every queued filename it
\* changes nothing.
C12_UpdateCancelsOrKeeps ==
    [][(call'.op = "update_files_list" /\ Active)
           => /\ (Names(state.files_to_process) \cap Names(uploaded_files) = {}
                     => state'.status = CANCELLED)
              /\ (Names(state.files_to_process) \subseteq Names(uploaded_files)
                     => state' = state)]_vars

\* update_files_list found a run active and cancelled it, because every queued
\* file had been removed while another file is still uploaded.
C12_Witness ==
    /\ call.op = "update_files_list"
    /\ call.found \in {STARTING, PROCESSING}
    /\ state.status = CANCELLED
    /\ state.files_to_process # <<>>
    /\ uploaded_files # <<>>
    /\ Names(state.files_to_process) \cap Names(uploaded_files) = {}

\* ---------------------------------------------------------------------------
\* C13: update_files_list called during an active run that finds some but not
\* all queued files removed leaves files_to_process equal to the previously
\* queued names that are still in the live upload set, in their original
\* order, and total_files equal to its length.  If the file that was current
\* (the file the cursor pointed at) survives, files_to_process[current_file_index]
\* is that file; otherwise the cursor is clamped,
\* 0 <= current_file_index <= total_files.
C13_UpdateKeepsCurrentFile ==
    [][LET old == state.files_to_process
           new == state'.files_to_process
           survivors == Names(old) \cap Names(uploaded_files)
       IN  (/\ call'.op = "update_files_list"
            /\ Active
            /\ survivors # {}
            /\ survivors # Names(old))
               => /\ Names(new) = survivors
                  /\ Len(new) = Cardinality(survivors)
                  /\ \A i, j \in 1..Len(new) :
                         i < j => IndexOf(old, new[i]) < IndexOf(old, new[j])
                  /\ state'.total_files = Len(new)
                  /\ IF /\ state.current_file_index < Len(old)
                        /\ old[state.current_file_index + 1] \in Names(new)
                     THEN /\ state'.current_file_index < Len(new)
                          /\ new[state'.current_file_index + 1] =
                                 old[state.current_file_index + 1]
                     ELSE /\ 0 <= state'.current_file_index
                          /\ state'.current_file_index <= state'.total_files]_vars

\* ---------------------------------------------------------------------------
\* C14: the run started from a live upload set [a.txt, b.pdf] with neither file
\* indexed, while the live set stays as it is: start_processing yields
\* Starting; after tick 1 the cursor is 1 and progress 0.5; after tick 2 the
\* cursor is 2 and progress 1.0, the status still Processing; the status
\* becomes Completed only with tick 3, which attempts no file and leaves the
\* cursor at 2.
C14_TwoFileRun ==
    (/\ queue0 = <<"a.txt", "b.pdf">>
     /\ uploaded_files = <<"a.txt", "b.pdf">>
     /\ clean)
        => /\ ticks \in 0..3
           /\ ticks = 0 => /\ state.status = STARTING
                           /\ state.current_file_index = 0
           /\ ticks = 1 => /\ state.status = PROCESSING
                           /\ state.current_file_index = 1
                           /\ FracEq(state.progress, <<1, 2>>)
           /\ ticks = 2 => /\ state.status = PROCESSING
                           /\ state.current_file_index = 2
                           /\ FracEq(state.progress, <<1, 1>>)
           /\ ticks = 3 => /\ state.status = COMPLETED
                           /\ state.current_file_index = 2
                           /\ FracEq(state.progress, <<1, 1>>)
                           /\ (call.op = "process_next_file" /\ call.found = PROCESSING)
                                  => (call.file = None /\ ~call.ret)

\* The third tick of that run has just set Completed.
C14_Witness ==
    /\ queue0 = <<"a.txt", "b.pdf">>
    /\ uploaded_files = <<"a.txt", "b.pdf">>
    /\ clean
    /\ ticks = 3
    /\ call.op = "process_next_file"
    /\ call.found = PROCESSING
    /\ state.status = COMPLETED

\* ---------------------------------------------------------------------------
\* C15: when the attempt on the file at the cursor fails (the file handed to
\* _process_single_file is not indexed afterwards, whether a collaborator
\* raised or returned failure), process_next_file still returns normally with
\* True, records the failure in message, advances the cursor by exactly one
\* and keeps the run active with its queue, so the files behind it are still
\* reached by the following ticks.
C15_FailedFileDoesNotStopRun ==
    [][(/\ call'.op = "process_next_file"
        /\ call'.file # None
        /\ ~file_exists_in_database(store', call'.file))
           => /\ call'.ret
              /\ state'.message = Msg("Failed to process {filename}", call'.file, 0, 0)
              /\ state'.current_file_index = state.current_file_index + 1
              /\ state'.status = PROCESSING
              /\ state'.files_to_process = state.files_to_process
              /\ state'.total_files = state.total_files]_vars

\* The second file of the queue has just failed with the loader raising,
\* after the first file had been attempted; a third file is still ahead.
C15_Witness ==
    /\ call.op = "process_next_file"
    /\ call.outcome = "extract_raises"
    /\ clean
    /\ Len(state.files_to_process) = 3
    /\ state.current_file_index = 2
    /\ call.file = state.files_to_process[2]
    /\ state.files_to_process[1] \in attempted
    /\ state.message.text = "Failed to process {filename}"
    /\ state.status = PROCESSING

C18_CompletedProgressIsOne ==
    state.status = COMPLETED => FracEq(state.progress, <<1, 1>>)

\* A run has completed after update_files_list had shortened its queue.
C18_Witness ==
    /\ state.status = COMPLETED
    /\ call.op = "process_next_file"
    /\ call.found = PROCESSING
    /\ ~clean
    /\ Len(state.files_to_process) < Len(queue0)
    /\ FracEq(state.progress, <<1, 1>>)

\* ---------------------------------------------------------------------------
\* C19: reset() called when the status is Completed or Cancelled yields status
\* Idle with every field zeroed (current_file_index 0, total_files 0,
\* current_filename None, progress 0.0, message empty, files_to_process
\* empty), and leaves the store as it is.
C19_ResetZeroesEveryField ==
    [][(call'.op = "reset" /\ state.status \in {COMPLETED, CANCELLED})
           => /\ state' = [status |-> IDLE,
                           current_file_index |-> 0,
                           total_files |-> 0,
                           current_filename |-> None,
                           progress |-> <<0, 1>>,
                           message |-> Msg("", None, 0, 0),
                           files_to_process |-> <<>>]
              /\ store' = store]_vars

\* reset() has just been called on a Completed or Cancelled processor, with
\* documents in the store.
C19_Witness ==
    /\ call.op = "reset"
    /\ call.found \in {COMPLETED, CANCELLED}
    /\ state.status = IDLE
    /\ state.files_to_process = <<>>
    /\ state.current_filename = None
    /\ store # {}

\* ---------------------------------------------------------------------------
\* C20: remove_documents_by_filename(f) is idempotent with a verified
\* post-condition: on a store holding no chunk tagged f it returns True and
\* leaves the store unchanged (so a second call after a successful removal
\* returns True with the same store contents), and whenever it returns True
\* no chunk tagged f remains in the store.
C20_RemoveIdempotentVerified ==
    [][call'.op = "remove_documents_by_filename"
           => /\ (\A c \in store : c.filename # call'.file)
                     => (call'.ret /\ store' = store)
              /\ call'.ret => \A c \in store' : c.filename # call'.file]_vars

\* ---------------------------------------------------------------------------
\* C17: in the UI driver a destructive store operation
\* (remove_documents_by_filename, clear_all_documents) is issued only when no
\* ingestion run is active: the processor is neither Starting nor Processing
\* at the moment of the destructive call nor after the script run that issued
\* it, and that script run inserts no chunk before or after the call.
C17_DestructiveOnlyWhenInactive ==
    [][call'.outcome \in {"remove_documents_by_filename", "clear_all_documents"}
           => /\ call'.found \notin {STARTING, PROCESSING}
              /\ state'.status \notin {STARTING, PROCESSING}
              /\ store' \subseteq store]_vars

\* The remove button has removed an indexed file while files of a run that
\* ended in Cancelled were still in the uploader.
C17_Witness ==
    /\ call.op = "remove_file"
    /\ call.outcome = "remove_documents_by_filename"
    /\ call.ret
    /\ call.file \in Files
    /\ \A c \in store : c.filename # call.file
    /\ state.status = CANCELLED
    /\ state.files_to_process # <<>>

\* ---------------------------------------------------------------------------
\* C21: remove_documents_by_filename and clear_all_documents report failure
\* without raising (every call of the model returns a value): when records
\* tagged with the filename (for remove) or any records (for clear) are still
\* in the store afterwards, or when a call of the store raises, the operation
\* returns False; clear_all_documents returns True only when the store is
\* empty afterwards.
C21_FailureReportedAsFalse ==
    [][LET raises == call'.outcome \in {"exists_raises", "ids_raises",
                                        "delete_raises", "verify_raises"}
       IN  /\ call'.op = "remove_documents_by_filename"
                  => /\ call'.ret \in BOOLEAN
                     /\ (raises \/ \E c \in store' : c.filename = call'.file)
                            => ~call'.ret
           /\ call'.op = "clear_all_documents"
                  => /\ call'.ret \in BOOLEAN
                     /\ (raises \/ store' # {}) => ~call'.ret
                     /\ call'.ret => store' = {}]_vars

\* ---------------------------------------------------------------------------
\* C22: should_truncate_history(history) is true exactly when the history has
\* more than 15 entries, and truncate_history(history) is the newest 15
\* entries of the history in their order (the whole history when it has at
\* most 15).
C22_TruncateAtFifteen ==
    /\ should_truncate_history(history) <=> Len(history) > 15
    /\ truncate_history(history) =
           IF Len(history) <= 15 THEN history
           ELSE SubSeq(history, Len(history) - 14, Len(history))

\* ---------------------------------------------------------------------------
\* C23: the chunk size and overlap chosen for a document depend only on its
\* total length L and its density of double newlines: the base (size, overlap)
\* is (500,100) for L <= 5000, (1000,200) for L <= 20000, (1500,300) for
\* L <= 50000 and (2000,400) above; the content is structured iff
\* (double newlines)/L > 0.01; structured content gets floor(0.9 * base size),
\* continuous content the base size, and the overlap is the base overlap in
\* both cases.
C23_Chosen == call.op = "get_optimized_text_splitter"

C23_L == SumLength(docs)

C23_Base ==
    IF C23_L <= 5000 THEN <<500, 100>>
    ELSE IF C23_L <= 20000 THEN <<1000, 200>>
    ELSE IF C23_L <= 50000 THEN <<1500, 300>>
    ELSE <<2000, 400>>

C23_Structured == C23_L > 0 /\ 100 * SumParagraphs(docs) > C23_L

C23_ChunkParameters ==
    C23_Chosen =>
        /\ splitter.chunk_size =
               IF C23_Structured THEN (9 * C23_Base[1]) \div 10 ELSE C23_Base[1]
        /\ splitter.chunk_overlap = C23_Base[2]

\* a structured document of 60000 characters was given size 1800, overlap 400
C23_Witness ==
    /\ C23_Chosen
    /\ C23_L = 60000
    /\ C23_Structured
    /\ splitter.chunk_size = 1800
    /\ splitter.chunk_overlap = 400

\* ---------------------------------------------------------------------------
\* C24 as stated: a document of 3000 characters whose density of double
\* newlines is not above 0.01 is split with size 450 and overlap 100.
C24_LowDensityGets450 ==
    (C23_Chosen /\ C23_L = 3000 /\ ~C23_Structured)
        => splitter.chunk_size = 450 /\ splitter.chunk_overlap = 100

\* C24: a document of 3000 characters whose density of double newlines is not
\* above 0.01 is split with the base size 500 and overlap 100; size 450 is
\* what the same length gets when the density is above 0.01.
C24_LowDensityGets500 ==
    /\ (C23_Chosen /\ C23_L = 3000 /\ ~C23_Structured)
           => splitter.chunk_size = 500 /\ splitter.chunk_overlap = 100
    /\ (C23_Chosen /\ C23_L = 3000 /\ C23_Structured)
           => splitter.chunk_size = 450 /\ splitter.chunk_overlap = 100

\* 3000 characters with 30 double newlines: density exactly 0.01
C24_Witness ==
    /\ C23_Chosen
    /\ C23_L = 3000
    /\ SumParagraphs(docs) = 30
    /\ splitter.chunk_size = 500

\* ---------------------------------------------------------------------------
\* C25: a failure of the answer generator does not leave query_knowledgebase:
\* a run of the script that queries always appends one assistant message to
\* the history it found, clears pending_bot_reply and asks for a rerun; the
\* message is the fixed apology when llm.invoke raised (and the other fixed
\* apology when retrieval raised), the answer to the last question otherwise;
\* after it the chat input takes the next question.
C25_QueryFailureIsAnswered ==
    [][query' # ""
          => /\ pending_bot_reply /\ history # <<>>
             /\ history' =
                    Append(history,
                           Message("assistant",
                                   IF query' = "llm_raises" THEN LLMApology
                                   ELSE IF query' = "retriever_raises" THEN QueryApology
                                   ELSE Answer(history[Len(history)].content)))
             /\ ~pending_bot_reply'
             /\ rerun'
             /\ asked' < MaxQuestions => (ENABLED ChatSubmitted)']_vars

\* llm.invoke raised for one question, and the next question was asked and
\* answered
C25_Witness ==
    \E i \in 1..Len(history) :
        /\ i + 2 <= Len(history)
        /\ history[i] = Message("assistant", LLMApology)
        /\ history[i + 1].role = "user"
        /\ history[i + 2] = Message("assistant", Answer(history[i + 1].content))
        /\ query = "none"
        /\ ~pending_bot_reply

\* ---------------------------------------------------------------------------
\* C29: the chat driver checks for truncation before it appends a question,
\* never after: a submission leaves the newest max_history_length entries of
\* the history it found (the whole of it when it was not longer) followed by
\* the question, so at most max_history_length + 1 messages right after the
\* append, and no state holds more than max_history_length + 2 messages.
C29_TruncateBeforeAppend ==
    [][/\ call'.op = "chat_input"
              => /\ history' =
                        Append(IF Len(history) > max_history_length
                               THEN SubSeq(history, Len(history) - max_history_length + 1,
                                           Len(history))
                               ELSE history,
                               Message("user", ToString(asked')))
                 /\ Len(history') <= max_history_length + 1
       /\ Len(history') <= max_history_length + 2]_vars

\* the seventh question found twelve messages: the first question and its
\* answer were dropped and the question appended
C29_Witness ==
    /\ call.op = "chat_input"
    /\ asked = 7
    /\ Len(history) = max_history_length + 1
    /\ history[1] = Message("user", "2")
    /\ history[Len(history)] = Message("user", "7")

\* ---------------------------------------------------------------------------
\* C26: one call of process_next_file does at most one unit of work: it moves
\* current_file_index by exactly +1 when the run is active and the cursor is
\* below the length of the queue, and leaves it otherwise; the only file it
\* can hand to extraction and indexing is the one the cursor was on, and only
\* chunks of that file can enter the store.
C26_OneFilePerTick ==
    [][call'.op = "process_next_file"
          => IF Active /\ state.current_file_index < Len(state.files_to_process)
             THEN /\ state'.current_file_index = state.current_file_index + 1
                  /\ call'.file \in
                         {None, state.files_to_process[state.current_file_index + 1]}
                  /\ attempted' \in {attempted, attempted \cup {call'.file}}
                  /\ \A c \in store' \ store : c.filename = call'.file
                  /\ state'.files_to_process = state.files_to_process
             ELSE /\ state'.current_file_index = state.current_file_index
                  /\ call'.file = None
                  /\ attempted' = attempted
                  /\ store' = store]_vars

\* a tick handed the first of three queued files to extraction, the cursor is
\* on the second and the run goes on
C26_Witness ==
    /\ call.op = "process_next_file"
    /\ call.file = "a.txt"
    /\ state.files_to_process = <<"a.txt", "b.pdf", "c.doc">>
    /\ state.current_file_index = 1
    /\ attempted = {"a.txt"}
    /\ state.status = PROCESSING

\* ---------------------------------------------------------------------------
\* C27: between operations, whenever status is Starting or Processing,
\* progress equals current_file_index / total_files, also after
\* update_files_list has changed total_files or moved the cursor.
C27_ProgressFollowsCursor ==
    Active => /\ state.total_files > 0
              /\ FracEq(state.progress,
                        Frac(state.current_file_index, state.total_files))

\* ---------------------------------------------------------------------------
\* C28 as stated: the tick in which the extraction or indexing of a single
\* file raises while status is Processing leaves status Error.
C28_RaisingFileSetsError ==
    [][(/\ call'.op = "process_next_file"
        /\ call'.outcome \in {"extract_raises", "store_raises"}
        /\ state.status = PROCESSING)
           => state'.status = ERROR]_vars

\* C28: the Error status is declared and never entered: no operation of the
\* processor leaves status Error, whatever raises.
C28_ErrorNeverEntered == state.status # ERROR

\* a tick that found status Processing handed a file to an extraction that
\* raised, and status is Processing
C28_Witness ==
    /\ call.op = "process_next_file"
    /\ call.found = PROCESSING
    /\ call.outcome = "extract_raises"
    /\ call.file # None
    /\ state.status = PROCESSING

\* ---------------------------------------------------------------------------
\* C30: when a run has reached Completed, every filename that is still in
\* files_to_process and in the live upload set was found at the cursor by at
\* least one tick of the run (processed or skipped): update_files_list does
\* not move the cursor past a surviving file that no tick has visited.
C30_SurvivorsVisited ==
    (state.status = COMPLETED /\ call.op = "process_next_file")
        => \A f \in Names(state.files_to_process) \cap Names(uploaded_files) :
               f \in visited

\* ---------------------------------------------------------------------------
\* C33: whenever status is Starting or Processing, total_files is at least 1
\* and files_to_process is not empty (and total_files is its length), after
\* any sequence of start_processing, process_next_file, update_files_list,
\* cancel_processing and reset calls, so the divisor of the progress
\* computation of a tick is never zero.
C33_ActiveQueueNonEmpty ==
    Active => /\ state.total_files >= 1
              /\ state.files_to_process # <<>>
              /\ state.total_files = Len(state.files_to_process)

\* update_files_list has just shrunk the queue of an active run to one file
C33_Witness ==
    /\ call.op = "update_files_list"
    /\ call.ret
    /\ Active
    /\ state.total_files = 1
    /\ Len(state.files_to_process) = 1

\* ---------------------------------------------------------------------------
\* C34 as stated: whenever pending_bot_reply is true the history is not empty
\* and ends with a user message, and every submitted question gets exactly
\* one assistant message: each user message of the history is followed by an
\* assistant message, except the last message while its reply is pending.
C34_OneReplyPerQuestion ==
    /\ pending_bot_reply =>
           /\ history # <<>>
           /\ history[Len(history)].role = "user"
    /\ \A i \in 1..Len(history) :
           history[i].role = "user" =>
               IF i = Len(history) THEN pending_bot_reply
               ELSE history[i + 1].role = "assistant"

\* C34: whenever pending_bot_reply is true the history is not empty and ends
\* with a user message, for every order of submissions, replies and clears; a
\* run that replies reads that last message as the question, queries with the
\* history without it, appends exactly one assistant message, the one for that
\* question, and clears pending_bot_reply; no two assistant messages are
\* adjacent, so a question gets at most one: a question followed by another
\* question before its reply, or cleared, gets none.
C34_PendingHasQuestion ==
    [][/\ pending_bot_reply' =>
              /\ history' # <<>>
              /\ history'[Len(history')].role = "user"
       /\ query' # "" =>
              /\ history[Len(history)].role = "user"
              /\ Len(history') = Len(history) + 1
              /\ SubSeq(history', 1, Len(history)) = history
              /\ history'[Len(history')] =
                     Message("assistant",
                             query_knowledgebase(history[Len(history)].content,
                                                 SubSeq(history, 1, Len(history) - 1),
                                                 query'))
              /\ ~pending_bot_reply'
       /\ \A i \in 1..(Len(history') - 1) :
              ~(history'[i].role = "assistant" /\ history'[i + 1].role = "assistant")]_vars

\* two questions were submitted in a row and one reply was appended, for the
\* second
C34_Witness ==
    /\ history = <<Message("user", "1"), Message("user", "2"),
                   Message("assistant", Answer("2"))>>
    /\ ~pending_bot_reply
    /\ query = "none"

\* ---------------------------------------------------------------------------
\* C32: every run terminates: when update_files_list and process_next_file
\* keep being called and the live upload set only shrinks during a run, a run
\* that has entered Starting reaches Completed or Cancelled, also when
\* update_files_list relocates the cursor on the way.
C32_RunTerminates ==
    (state.status = STARTING) ~> (state.status \in {COMPLETED, CANCELLED})

\* a run whose queue was reconciled on the way, with the cursor moved back to
\* the file already handled, has reached Completed
C32_Witness ==
    /\ state.status = COMPLETED
    /\ call.op = "process_next_file"
    /\ ~clean
    /\ Len(queue0) = 3
    /\ Len(state.files_to_process) = 2
    /\ state.files_to_process[1] = queue0[1]

\* ---------------------------------------------------------------------------
\* C31: in the driver the processor does not stay outside Idle after a run
\* has ended: once the script leaves the processor in Cancelled (for example
\* because update_files_list found every queued file removed while other
\* files remain uploaded) or Completed, a later run of the script resets it
\* to Idle, so that a later upload can start a new run.
C31_EndedRunIsReset ==
    (state.status \in {CANCELLED, COMPLETED}) ~> (state.status = IDLE)

==============================================================================
